---------------------------- MODULE Spec2Model ----------------------------
(***************************************************************************)
(* Model of lru-cache-adaptor: LruCache (src/src/lib.rs), a size-aware     *)
(* eviction layer over disklru::Store, and remove_file_get_size            *)
(* (src/src/utils.rs), which deletes a backing file and reports its size.  *)
(*                                                                         *)
(* The store is a sequence of <<key, path>> pairs, least recently used     *)
(* first.  The file system is a function from paths to a file state.       *)
(* insert_new_file is modelled step by step (conflict step, one action per *)
(* iteration of its while loop, commit), because its loop may not end.     *)
(* Every other operation is one action.  An operation leaves its result in *)
(* ret with pc = "done"; Return hands control back to the caller.          *)
(*                                                                         *)
(* The calls are sequential (one caller, no other writer of the store or   *)
(* of the files while a call runs).  The store's own operations are taken  *)
(* to succeed, and its entry capacity is never reached.  A file that       *)
(* cannot be deleted ("denied") stands for every I/O failure other than    *)
(* "not found": remove_file_get_size returns Err and leaves the file.      *)
(***************************************************************************)
EXTENDS Integers, Sequences, FiniteSets, TLC

\* ------------------------------------------------------------- bounds
NumKeys == 3
NumPaths == 3
MaxExceed == 3

\* the insertions the caller of the example makes
MaxPlaced == 5
\* examples/files_management.rs: total_capacity
total_capacity == 2048

Keys == 1..NumKeys
Paths == 1..NumPaths
\* the overflow amounts a caller passes: negative (already fits) up to MaxExceed
ExceedValues == (0 - 1)..MaxExceed
\* The iteration counter is exact up to MaxIters, which is above store size + 1
\* for every store; past it the counter alternates between its two top
\* values, so a loop that spins is a cycle of steps and not a halt.
MaxIters == NumKeys + 3

NoKey == 0
NoPath == 0

VARIABLES
    inner,          \* LruCache.inner: Seq of <<key, path>>, LRU first, MRU last
    files,          \* the file system: path -> "absent" | "present" | "denied"
    pc,             \* "idle" | "loop" (inside insert_new_file's while) | "done"
    op,             \* the operation running or just finished
    key,            \* insert_new_file / remove_file / access ...: argument key
    path,           \* insert_new_file / insert: argument path
    exceed_size,    \* insert_new_file: the mutable overflow counter
    old_value,      \* insert_new_file: local old_value
    removed_files,  \* insert_new_file: local removed_files
    iters,          \* history: iterations of the while loop begun so far
    reclaim,        \* history: outcome of the loop's last remove_file_get_size
    ret,            \* the result the operation returns
    inner0,         \* history: the store when the operation was called
    files0,         \* history: the file system when the operation was called
    exceed0,        \* history: the exceed_size argument as passed
    innerL,         \* history: the store when the while loop was first reached
    sizes,          \* the file system: path -> length of the file written there
    used,           \* the caller's account of the bytes it holds (example: used)
    placed          \* history: the sizes the caller has placed so far, in order

vars == <<inner, files, pc, op, key, path, exceed_size, old_value,
          removed_files, iters, reclaim, ret, inner0, files0, exceed0, innerL,
          sizes, used, placed>>

\* what belongs to the caller: the lengths it wrote and its own accounting
caller == <<sizes, used, placed>>

\* ------------------------------------------------------------- file system
\* The length metadata() reports for the file at path p: the length the
\* caller gave the file it wrote there.
FileSize(p) == sizes[p]

\* Path::metadata(): NotFound for an absent file, otherwise the length.
Metadata(fs, p) ==
    IF fs[p] = "absent" THEN [kind |-> "NotFound", len |-> 0]
                        ELSE [kind |-> "Ok", len |-> FileSize(p)]

\* std::fs::remove_file(): succeeds on a present file, NotFound on an absent
\* one, another error (permission denied) on a file that cannot be deleted.
FsRemove(fs, p) ==
    CASE fs[p] = "present" -> [kind |-> "Ok", fs |-> [fs EXCEPT ![p] = "absent"]]
      [] fs[p] = "absent"  -> [kind |-> "NotFound", fs |-> fs]
      [] OTHER             -> [kind |-> "Err", fs |-> fs]

\* remove_file_get_size: res = "Some" is Ok(Some(size)), "None" is Ok(None),
\* "Err" is Err(LRUError::IO); fs is the file system afterwards.
remove_file_get_size_strict(fs, p) ==
    LET meta == Metadata(fs, p) IN
    IF meta.kind # "Ok" THEN [res |-> "Err", size |-> 0, fs |-> fs]
    ELSE LET rm == FsRemove(fs, p) IN
         IF rm.kind = "Ok" THEN [res |-> "Some", size |-> meta.len, fs |-> rm.fs]
                           ELSE [res |-> "Err", size |-> 0, fs |-> rm.fs]
remove_file_get_size(fs, p) ==
    LET meta == Metadata(fs, p) IN
    CASE meta.kind = "NotFound" -> [res |-> "None", size |-> 0, fs |-> fs]
      [] meta.kind = "Err"      -> [res |-> "Err", size |-> 0, fs |-> fs]
      [] OTHER ->
            LET rm == FsRemove(fs, p) IN
            CASE rm.kind = "Ok"       -> [res |-> "Some", size |-> meta.len, fs |-> rm.fs]
              [] rm.kind = "NotFound" -> [res |-> "None", size |-> 0, fs |-> rm.fs]
              [] OTHER                -> [res |-> "Err", size |-> 0, fs |-> rm.fs]

\* ------------------------------------------------------------- the store
\* disklru::Store, the external ordered store the layer wraps.
StoreKeys(s) == {s[i][1] : i \in DOMAIN s}
StoreHas(s, k) == k \in StoreKeys(s)
StoreIndex(s, k) == CHOOSE i \in DOMAIN s : s[i][1] = k
StoreWithout(s, k) == SelectSeq(s, LAMBDA e : e[1] # k)
\* peek: the value of k or NoPath; the order is untouched
StorePeek(s, k) == IF StoreHas(s, k) THEN s[StoreIndex(s, k)][2] ELSE NoPath
\* get: the value of k, and k becomes the most recently used
StoreGet(s, k) ==
    IF StoreHas(s, k)
    THEN [val |-> StorePeek(s, k),
          store |-> Append(StoreWithout(s, k), <<k, StorePeek(s, k)>>)]
    ELSE [val |-> NoPath, store |-> s]
\* insert: k maps to v and is the most recently used; the old value is returned
StoreInsert(s, k, v) ==
    [val |-> StorePeek(s, k), store |-> Append(StoreWithout(s, k), <<k, v>>)]
\* pop: k and its value leave the store; the pair <<k, value>> is returned,
\* <<>> when k is absent
StorePop(s, k) ==
    [pair |-> IF StoreHas(s, k) THEN <<k, StorePeek(s, k)>> ELSE <<>>,
     store |-> StoreWithout(s, k)]
\* pop_lru: the least recently used entry leaves the store and is returned
StorePopLru(s) ==
    IF s = <<>> THEN [pair |-> <<>>, store |-> s]
                ELSE [pair |-> s[1], store |-> Tail(s)]
\* lru / mru: the extremal key, NoKey on an empty store
StoreLru(s) == IF s = <<>> THEN NoKey ELSE s[1][1]
StoreMru(s) == IF s = <<>> THEN NoKey ELSE s[Len(s)][1]
\* the key -> value mapping, without the order
Mapping(s) == {s[i] : i \in DOMAIN s}

\* ------------------------------------------------------------- LruCache
access_peeks(s, k) == [val |-> StorePeek(s, k), store |-> s]
access(s, k) == StoreGet(s, k)
insert(s, k, v) == StoreInsert(s, k, v)
pop_keeps(s, k) == [pair |-> StorePop(s, k).pair, store |-> s]
pop(s, k) == StorePop(s, k)
pop_least_recently_used(s) == StorePopLru(s)
least_recently_used(s) == StoreLru(s)
\* least_recently_used_pair: <<key, value>> of the LRU entry, <<>> when empty
least_recently_used_pair_mru(s) ==
    IF StoreMru(s) = NoKey THEN <<>> ELSE <<StoreMru(s), StorePeek(s, StoreMru(s))>>
least_recently_used_pair(s) ==
    LET lru_key == least_recently_used(s) IN
    IF lru_key = NoKey THEN <<>> ELSE <<lru_key, StorePeek(s, lru_key)>>
\* least_recently_used_value (Store::peek_lru): the LRU value, no promotion
least_recently_used_value(s) ==
    IF s = <<>> THEN NoPath ELSE s[1][2]

\* peek (Store::peek): the value, the store as it was
peek_promotes(s, k) == StoreGet(s, k)
peek(s, k) == [val |-> StorePeek(s, k), store |-> s]
most_recently_used(s) == StoreMru(s)
\* most_recently_used_value (Store::peek_mru): the MRU value, no promotion
most_recently_used_value(s) ==
    IF s = <<>> THEN NoPath ELSE s[Len(s)][2]
\* most_recently_used_pair: <<key, value>> of the MRU entry, <<>> when empty
most_recently_used_pair(s) ==
    LET mru_key == most_recently_used(s) IN
    IF mru_key = NoKey THEN <<>> ELSE <<mru_key, StorePeek(s, mru_key)>>

\* results
NoRet == [kind |-> "none", size |-> 0, files |-> <<>>, pair |-> <<>>]
OkNone == [kind |-> "OkNone", size |-> 0, files |-> <<>>, pair |-> <<>>]
OkSome(n) == [kind |-> "OkSome", size |-> n, files |-> <<>>, pair |-> <<>>]
OkFiles(fl) == [kind |-> "OkFiles", size |-> 0, files |-> fl, pair |-> <<>>]
ErrIO == [kind |-> "ErrIO", size |-> 0, files |-> <<>>, pair |-> <<>>]
ErrCapacity == [kind |-> "InsufficientCapacity", size |-> 0, files |-> <<>>, pair |-> <<>>]
\* Ok(Some((key, value)))
OkPair(pr) == [kind |-> "OkPair", size |-> 0, files |-> <<>>, pair |-> pr]
\* LRUResult<Option<u64>> from remove_file_get_size's outcome
SizeResult(r) ==
    CASE r.res = "Some" -> OkSome(r.size)
      [] r.res = "None" -> OkNone
      [] OTHER          -> ErrIO

FileInfo(k, p, n) == [key |-> k, file_path |-> p, file_size |-> n]

\* ------------------------------------------------------------- actions
Init ==
    /\ inner = <<>>
    /\ files = [p \in Paths |-> "absent"]
    /\ pc = "idle"
    /\ op = "none"
    /\ key = NoKey
    /\ path = NoPath
    /\ exceed_size = 0
    /\ old_value = NoPath
    /\ removed_files = <<>>
    /\ iters = 0
    /\ reclaim = "none"
    /\ ret = NoRet
    /\ inner0 = <<>>
    /\ files0 = [p \in Paths |-> "absent"]
    /\ exceed0 = 0
    /\ innerL = <<>>
    /\ sizes = [p \in Paths |-> p - 1]
    /\ used = 0
    /\ placed = <<>>

\* what a call records on entry: its name, its arguments and the state it found
Enter(o, k, p, e) ==
    /\ pc = "idle"
    /\ op' = o
    /\ key' = k
    /\ path' = p
    /\ exceed0' = e
    /\ inner0' = inner
    /\ files0' = files

\* the locals of insert_new_file, untouched by the one-step operations
NoLocals == UNCHANGED <<exceed_size, old_value, removed_files, iters, reclaim, innerL>>

\* The caller writes the file it is about to register (place_file in the
\* example: create, then set_len).
CreateFile(p) ==
    /\ pc = "idle"
    /\ files[p] = "absent"
    /\ files' = [files EXCEPT ![p] = "present"]
    /\ UNCHANGED <<inner, pc, op, key, path, exceed_size, old_value, removed_files,
                   iters, reclaim, ret, inner0, files0, exceed0, innerL>>
    /\ UNCHANGED caller

\* The environment makes an existing file undeletable (its directory becomes
\* read-only), or deletable again.
Protect(p) ==
    /\ pc = "idle"
    /\ files[p] \in {"present", "denied"}
    /\ files' = [files EXCEPT ![p] = IF files[p] = "present" THEN "denied" ELSE "present"]
    /\ UNCHANGED <<inner, pc, op, key, path, exceed_size, old_value, removed_files,
                   iters, reclaim, ret, inner0, files0, exceed0, innerL>>
    /\ UNCHANGED caller

\* LruCache::access
Access(k) ==
    /\ Enter("access", k, NoPath, 0)
    /\ inner' = access(inner, k).store
    /\ ret' = IF access(inner, k).val = NoPath THEN OkNone ELSE OkSome(access(inner, k).val)
    /\ pc' = "done"
    /\ UNCHANGED files
    /\ NoLocals
    /\ UNCHANGED caller

\* Option<K> or Option<V> as a result
OptResult(v) == IF v = 0 THEN OkNone ELSE OkSome(v)
\* Option<(K, V)> as a result
PairResult(pr) == IF pr = <<>> THEN OkNone ELSE OkPair(pr)

\* LruCache::peek
Peek(k) ==
    /\ Enter("peek", k, NoPath, 0)
    /\ inner' = peek(inner, k).store
    /\ ret' = OptResult(peek(inner, k).val)
    /\ pc' = "done"
    /\ UNCHANGED files
    /\ NoLocals
    /\ UNCHANGED caller

\* the queries that take no key and only read the store: result r
Query(o, r) ==
    /\ Enter(o, NoKey, NoPath, 0)
    /\ ret' = r
    /\ pc' = "done"
    /\ UNCHANGED <<inner, files>>
    /\ NoLocals
    /\ UNCHANGED caller

\* LruCache::most_recently_used, _value, _pair
MostRecentlyUsed == Query("most_recently_used", OptResult(most_recently_used(inner)))
MostRecentlyUsedValue ==
    Query("most_recently_used_value", OptResult(most_recently_used_value(inner)))
MostRecentlyUsedPair ==
    Query("most_recently_used_pair", PairResult(most_recently_used_pair(inner)))

\* LruCache::least_recently_used, _value, _pair
LeastRecentlyUsed == Query("least_recently_used", OptResult(least_recently_used(inner)))
LeastRecentlyUsedValue ==
    Query("least_recently_used_value", OptResult(least_recently_used_value(inner)))
LeastRecentlyUsedPair ==
    Query("least_recently_used_pair", PairResult(least_recently_used_pair(inner)))

\* LruCache::insert
Insert(k, p) ==
    /\ Enter("insert", k, p, 0)
    /\ inner' = insert(inner, k, p).store
    /\ ret' = IF insert(inner, k, p).val = NoPath THEN OkNone ELSE OkSome(insert(inner, k, p).val)
    /\ pc' = "done"
    /\ UNCHANGED files
    /\ NoLocals
    /\ UNCHANGED caller

\* LruCache::pop
Pop(k) ==
    /\ Enter("pop", k, NoPath, 0)
    /\ inner' = pop(inner, k).store
    /\ ret' = PairResult(pop(inner, k).pair)
    /\ pc' = "done"
    /\ UNCHANGED files
    /\ NoLocals
    /\ UNCHANGED caller

\* LruCache::pop_least_recently_used
PopLeastRecentlyUsed ==
    /\ Enter("pop_least_recently_used", NoKey, NoPath, 0)
    /\ inner' = pop_least_recently_used(inner).store
    /\ ret' = PairResult(pop_least_recently_used(inner).pair)
    /\ pc' = "done"
    /\ UNCHANGED files
    /\ NoLocals
    /\ UNCHANGED caller

\* remove_lru_file that looks the value up through access
RemoveLruFile_promotes ==
    /\ Enter("remove_lru_file", NoKey, NoPath, 0)
    /\ LET a == access(inner, least_recently_used(inner)) IN
       IF a.val = NoPath
       THEN /\ ret' = OkNone
            /\ UNCHANGED <<inner, files>>
       ELSE LET r == remove_file_get_size(files, a.val) IN
            /\ ret' = SizeResult(r)
            /\ files' = r.fs
            /\ inner' = a.store
    /\ pc' = "done"
    /\ NoLocals
    /\ UNCHANGED caller

\* LruCache::remove_lru_file
RemoveLruFile ==
    /\ Enter("remove_lru_file", NoKey, NoPath, 0)
    /\ LET file == least_recently_used_value(inner) IN
       IF file = NoPath
       THEN /\ ret' = OkNone
            /\ UNCHANGED <<inner, files>>
       ELSE LET r == remove_file_get_size(files, file) IN
            /\ ret' = SizeResult(r)
            /\ files' = r.fs
            /\ UNCHANGED inner
    /\ pc' = "done"
    /\ NoLocals
    /\ UNCHANGED caller

\* remove_file that also pops the entry it reclaimed
RemoveFile_pops(k) ==
    /\ Enter("remove_file", k, NoPath, 0)
    /\ LET a == access(inner, k) IN
       IF a.val = NoPath
       THEN /\ ret' = OkNone
            /\ UNCHANGED <<inner, files>>
       ELSE LET r == remove_file_get_size(files, a.val) IN
            /\ ret' = SizeResult(r)
            /\ files' = r.fs
            /\ inner' = pop(a.store, k).store
    /\ pc' = "done"
    /\ NoLocals
    /\ UNCHANGED caller

\* LruCache::remove_file
RemoveFile(k) ==
    /\ Enter("remove_file", k, NoPath, 0)
    /\ LET a == access(inner, k) IN
       IF a.val = NoPath
       THEN /\ ret' = OkNone
            /\ UNCHANGED <<inner, files>>
       ELSE LET r == remove_file_get_size(files, a.val) IN
            /\ ret' = SizeResult(r)
            /\ files' = r.fs
            /\ inner' = a.store
    /\ pc' = "done"
    /\ NoLocals
    /\ UNCHANGED caller

\* the iteration counter after one more iteration
NextIters(n) == IF n < MaxIters THEN n + 1 ELSE MaxIters - 1

\* a loop condition with the sign of the test reversed
LoopCond_inverted(e) == e < 0
\* insert_new_file, the loop condition: while exceed_size >= 0
LoopCond_strict(e) == e > 0
LoopCond(e) == e >= 0

\* insert_new_file, lines 163-165: the overflow after the conflict step's
\* reclamation r; only Ok(Some(file_size)) is subtracted.
ConflictExceed_keep(e, r) == e
ConflictExceed(e, r) == IF r.res = "Some" THEN e - r.size ELSE e

\* a conflict step that propagates a failed reclamation with `?`
InsertNewFileCall_propagates(k, p, e) ==
    /\ Enter("insert_new_file", k, p, e)
    /\ LET a == access(inner, k)
           r == IF a.val = NoPath THEN [res |-> "None", size |-> 0, fs |-> files]
                                  ELSE remove_file_get_size(files, a.val)
       IN /\ inner' = a.store
          /\ innerL' = a.store
          /\ files' = r.fs
          /\ exceed_size' = ConflictExceed(e, r)
          /\ old_value' = a.val
          /\ pc' = IF r.res = "Err" THEN "done" ELSE "loop"
          /\ ret' = IF r.res = "Err" THEN ErrIO ELSE ret
    /\ removed_files' = <<>>
    /\ iters' = 0
    /\ reclaim' = "none"
    /\ UNCHANGED caller

\* insert_new_file, lines 159-169: the same-key conflict step.  The old file
\* is reclaimed best-effort (any outcome but Ok(Some) changes nothing), the
\* key stays in the store.
InsertNewFileCall(k, p, e) ==
    /\ Enter("insert_new_file", k, p, e)
    /\ LET a == access(inner, k)
           r == IF a.val = NoPath THEN [res |-> "None", size |-> 0, fs |-> files]
                                  ELSE remove_file_get_size(files, a.val)
       IN /\ inner' = a.store
          /\ innerL' = a.store
          /\ files' = r.fs
          /\ exceed_size' = ConflictExceed(e, r)
          /\ old_value' = a.val
    /\ removed_files' = <<>>
    /\ iters' = 0
    /\ reclaim' = "none"
    /\ UNCHANGED caller
    /\ pc' = "loop"
    /\ UNCHANGED ret

\* a loop that gives up with a capacity error when the LRU file yields no size
InsertNewFileIterate_gives_up ==
    /\ pc = "loop"
    /\ LoopCond(exceed_size)
    /\ iters' = NextIters(iters)
    /\ LET pair == least_recently_used_pair(inner) IN
       IF pair = <<>>
       THEN /\ ret' = ErrCapacity
            /\ pc' = "done"
            /\ UNCHANGED <<inner, files, exceed_size, removed_files, reclaim>>
       ELSE LET r == remove_file_get_size(files, pair[2]) IN
            /\ files' = r.fs
            /\ reclaim' = r.res
            /\ IF r.res = "Some"
               THEN /\ inner' = pop(inner, pair[1]).store
                    /\ exceed_size' = exceed_size - r.size
                    /\ removed_files' = Append(removed_files, FileInfo(pair[1], pair[2], r.size))
                    /\ UNCHANGED <<ret, pc>>
               ELSE /\ ret' = ErrCapacity
                    /\ pc' = "done"
                    /\ UNCHANGED <<inner, exceed_size, removed_files>>
    /\ UNCHANGED <<op, key, path, old_value, inner0, files0, exceed0, innerL>>
    /\ UNCHANGED caller

\* insert_new_file, lines 171-185: one iteration of the while loop.
InsertNewFileIterate ==
    /\ pc = "loop"
    /\ LoopCond(exceed_size)
    /\ iters' = NextIters(iters)
    /\ LET pair == least_recently_used_pair(inner) IN
       IF pair = <<>>
       THEN /\ ret' = ErrCapacity
            /\ pc' = "done"
            /\ UNCHANGED <<inner, files, exceed_size, removed_files, reclaim>>
       ELSE LET r == remove_file_get_size(files, pair[2]) IN
            /\ files' = r.fs
            /\ reclaim' = r.res
            /\ IF r.res = "Some"
               THEN /\ inner' = pop(inner, pair[1]).store
                    /\ exceed_size' = exceed_size - r.size
                    /\ removed_files' = Append(removed_files, FileInfo(pair[1], pair[2], r.size))
               ELSE UNCHANGED <<inner, exceed_size, removed_files>>
            /\ UNCHANGED <<ret, pc>>
    /\ UNCHANGED <<op, key, path, old_value, inner0, files0, exceed0, innerL>>
    /\ UNCHANGED caller

\* a commit that returns the records without inserting the mapping
InsertNewFileCommit_no_insert ==
    /\ pc = "loop"
    /\ ~LoopCond(exceed_size)
    /\ ret' = OkFiles(removed_files)
    /\ pc' = "done"
    /\ UNCHANGED <<inner, files, op, key, path, exceed_size, old_value, removed_files,
                   iters, reclaim, inner0, files0, exceed0, innerL>>
    /\ UNCHANGED caller

\* insert_new_file, lines 187-189: the loop is left, the mapping is inserted.
InsertNewFileCommit ==
    /\ pc = "loop"
    /\ ~LoopCond(exceed_size)
    /\ inner' = insert(inner, key, path).store
    /\ ret' = OkFiles(removed_files)
    /\ pc' = "done"
    /\ UNCHANGED <<files, op, key, path, exceed_size, old_value, removed_files,
                   iters, reclaim, inner0, files0, exceed0, innerL>>
    /\ UNCHANGED caller

\* The operation has returned; the caller goes on.
Return ==
    /\ pc = "done"
    /\ pc' = "idle"
    /\ op' = "none"
    /\ key' = NoKey
    /\ path' = NoPath
    /\ exceed_size' = 0
    /\ old_value' = NoPath
    /\ removed_files' = <<>>
    /\ iters' = 0
    /\ reclaim' = "none"
    /\ UNCHANGED caller
    /\ ret' = NoRet
    /\ inner0' = <<>>
    /\ files0' = [p \in Paths |-> "absent"]
    /\ exceed0' = 0
    /\ innerL' = <<>>
    /\ UNCHANGED <<inner, files>>
    /\ UNCHANGED caller

Next ==
    \/ \E p \in Paths : CreateFile(p)
    \/ \E p \in Paths : Protect(p)
    \/ \E k \in Keys : Access(k)
    \/ \E k \in Keys : Peek(k)
    \/ MostRecentlyUsed
    \/ MostRecentlyUsedValue
    \/ MostRecentlyUsedPair
    \/ LeastRecentlyUsed
    \/ LeastRecentlyUsedValue
    \/ LeastRecentlyUsedPair
    \/ \E k \in Keys, p \in Paths : Insert(k, p)
    \/ \E k \in Keys : Pop(k)
    \/ PopLeastRecentlyUsed
    \/ RemoveLruFile
    \/ \E k \in Keys : RemoveFile(k)
    \/ \E k \in Keys, p \in Paths, e \in ExceedValues : InsertNewFileCall(k, p, e)
    \/ InsertNewFileIterate
    \/ InsertNewFileCommit
    \/ Return

Spec == Init /\ [][Next]_vars

\* The call in progress keeps running: the code is sequential and nothing
\* suspends it.
FairSpec == Spec /\ WF_vars(InsertNewFileIterate) /\ WF_vars(InsertNewFileCommit)


\* ------------------------------------------------------------- the example's caller
\* examples/files_management.rs: main places one file after the other, the
\* i-th under key i and path temp_i, and keeps its own account `used`.
ExampleSizes == {32, 512, 768, 1536, total_capacity}
ExamplePaths == 1..MaxPlaced

RECURSIVE SumRecords(_)
SumRecords(fl) ==
    IF fl = <<>> THEN 0 ELSE fl[1].file_size + SumRecords(Tail(fl))

ExampleInit ==
    /\ inner = <<>>
    /\ files = [p \in ExamplePaths |-> "absent"]
    /\ sizes = [p \in ExamplePaths |-> 0]
    /\ used = 0
    /\ placed = <<>>
    /\ pc = "idle"
    /\ op = "none"
    /\ key = NoKey
    /\ path = NoPath
    /\ exceed_size = 0
    /\ old_value = NoPath
    /\ removed_files = <<>>
    /\ iters = 0
    /\ reclaim = "none"
    /\ ret = NoRet
    /\ inner0 = <<>>
    /\ files0 = [p \in ExamplePaths |-> "absent"]
    /\ exceed0 = 0
    /\ innerL = <<>>

\* place_file, lines 84-87: the file temp_i is created with the given length
ExampleCreate(size) ==
    /\ pc = "idle"
    /\ key = Len(placed)
    /\ Len(placed) < MaxPlaced
    /\ placed' = Append(placed, size)
    /\ files' = [files EXCEPT ![Len(placed) + 1] = "present"]
    /\ sizes' = [sizes EXCEPT ![Len(placed) + 1] = size]
    /\ UNCHANGED <<inner, pc, op, key, path, exceed_size, old_value, removed_files,
                   iters, reclaim, ret, inner0, files0, exceed0, innerL, used>>

\* place_file, line 89, with main's argument size - (total_capacity - used)
ExampleCall ==
    /\ key # Len(placed)
    /\ InsertNewFileCall(Len(placed), Len(placed),
                         sizes[Len(placed)] - (total_capacity - used))

\* main, lines 23-32: used loses every returned file_size and gains size.
\* An Err leaves main through `?`: there is no step after it.
ExampleReturn ==
    /\ pc = "done"
    /\ ret.kind = "OkFiles"
    /\ used' = used - SumRecords(ret.files) + sizes[path]
    /\ pc' = "idle"
    /\ UNCHANGED <<inner, files, op, key, path, exceed_size, old_value, removed_files,
                   iters, reclaim, ret, inner0, files0, exceed0, innerL, sizes, placed>>

ExampleNext ==
    \/ \E size \in ExampleSizes : ExampleCreate(size)
    \/ ExampleCall
    \/ InsertNewFileIterate
    \/ InsertNewFileCommit
    \/ ExampleReturn

ExampleSpec == ExampleInit /\ [][ExampleNext]_vars

\* ------------------------------------------------------------- distinct paths
\* The store is changed through insert_new_file alone, each call with an
\* existing file at a path no entry of the store points to.
DistinctCall(k, p, e) ==
    /\ files[p] # "absent"
    /\ \A i \in DOMAIN inner : inner[i][2] # p
    /\ InsertNewFileCall(k, p, e)

DistinctNext ==
    \/ \E p \in Paths : CreateFile(p)
    \/ \E p \in Paths : Protect(p)
    \/ \E k \in Keys, p \in Paths, e \in ExceedValues : DistinctCall(k, p, e)
    \/ InsertNewFileIterate
    \/ InsertNewFileCommit
    \/ Return

DistinctSpec == Init /\ [][DistinctNext]_vars

\* ------------------------------------------------------------- claims
InsertDone == pc = "done" /\ op = "insert_new_file"
InsertOk == InsertDone /\ ret.kind = "OkFiles"
\* the path the key of the call mapped to when the call was made (or NoPath)
OldPath == StorePeek(inner0, key)

RECURSIVE SumSizes(_)
SumSizes(S) ==
    IF S = {} THEN 0
    ELSE LET p == CHOOSE x \in S : TRUE IN FileSize(p) + SumSizes(S \ {p})

\* the paths the entries of store s point to
StorePaths(s) == {s[i][2] : i \in DOMAIN s}

\* C1: insert_new_file ends within (store size + 1) iterations of its
\* eviction loop, whatever the state of the backing files.
C1_IterationsBounded ==
    op = "insert_new_file" => iters <= Len(inner0) + 1

\* C2: if the overflow stays positive after the backing file of every entry
\* (every one existing and deletable, the old file of the key included) is
\* deleted, the call returns InsufficientCapacity.
C2_Premise ==
    /\ op = "insert_new_file"
    /\ pc = "loop"
    /\ \A p \in StorePaths(inner0) : files0[p] = "present"
    /\ exceed0 - SumSizes(StorePaths(inner0)) > 0
C2_ReturnsInsufficientCapacity ==
    C2_Premise ~> (InsertDone /\ ret = ErrCapacity)

\* C3: a capacity error for a key that was not in the store leaves the store
\* empty: every entry was evicted, in order, its file is gone, and the
\* attempted mapping is not in the store.
C3_CapacityErrorEmptiesStore ==
    (InsertDone /\ ret = ErrCapacity /\ ~StoreHas(inner0, key)) =>
        /\ inner = <<>>
        /\ Len(removed_files) = Len(inner0)
        /\ \A i \in DOMAIN inner0 :
              /\ removed_files[i].key = inner0[i][1]
              /\ files[inner0[i][2]] = "absent"
C3_Witness ==
    /\ InsertDone /\ ret = ErrCapacity /\ ~StoreHas(inner0, key)
    /\ Len(inner0) >= 2

\* C4: the records a successful insert_new_file returns are the first
\* entries of the store as it was when the loop began, in LRU order, none
\* skipped, each with its key, its path and its file's size.
C4_RecordsInLruOrder ==
    InsertOk =>
        /\ Len(ret.files) <= Len(innerL)
        /\ \A i \in DOMAIN ret.files :
              ret.files[i] = FileInfo(innerL[i][1], innerL[i][2], FileSize(innerL[i][2]))
C4_Witness ==
    InsertOk /\ Len(ret.files) >= 2

\* C5: on success the overflow, less the reclaimed old file and every
\* returned record, is below zero, and without the last record it is not.
ReclaimedOld ==
    IF OldPath # NoPath /\ files0[OldPath] = "present" THEN FileSize(OldPath) ELSE 0
C5_EvictsMinimum ==
    InsertOk =>
        LET rest == exceed0 - ReclaimedOld - SumRecords(ret.files) IN
        /\ rest < 0
        /\ ret.files # <<>> => rest + ret.files[Len(ret.files)].file_size >= 0
C5_Witness ==
    InsertOk /\ Len(ret.files) >= 2 /\ exceed0 - SumRecords(ret.files) = 0 - 1

\* C6: after a successful insert_new_file the key maps to the new path and
\* is the most recently used key.
C6_KeyMappedAndMru ==
    InsertOk => (StorePeek(inner, key) = path /\ StoreMru(inner) = key)
C6_Witness ==
    InsertOk /\ Len(inner) >= 2 /\ OldPath # NoPath /\ OldPath # path

\* C7: when reclaiming the LRU entry's file fails in the eviction loop with
\* an error other than "not found", the call has returned that error.
C7_LoopErrorAborts ==
    (op = "insert_new_file" /\ reclaim = "Err") => (pc = "done" /\ ret = ErrIO)

\* C8: a key that maps to an existing file of size s, with overflow e and
\* e - s < 0: the old file is deleted, s is subtracted, nothing else is
\* evicted or deleted, the key never leaves the store, the result is empty
\* and the key ends mapped to the new path.
C8_Premise ==
    /\ op = "insert_new_file"
    /\ OldPath # NoPath
    /\ files0[OldPath] = "present"
    /\ exceed0 - FileSize(OldPath) < 0
C8_SameKeyReplaced ==
    C8_Premise =>
        /\ files = [files0 EXCEPT ![OldPath] = "absent"]
        /\ exceed_size = exceed0 - FileSize(OldPath)
        /\ removed_files = <<>>
        /\ StoreHas(inner, key)
        /\ StoreWithout(inner, key) = StoreWithout(inner0, key)
        /\ pc = "done" => (ret = OkFiles(<<>>) /\ StorePeek(inner, key) = path)
C8_Witness ==
    C8_Premise /\ pc = "done" /\ exceed0 >= 0 /\ Len(inner0) >= 2 /\ path # OldPath

\* C9: in the conflict step a failed reclamation of the old file (absent or
\* undeletable) is tolerated: no error is returned, the overflow and the
\* files are as passed, and the call goes on to the loop.
C9_Premise ==
    /\ op = "insert_new_file"
    /\ OldPath # NoPath
    /\ files0[OldPath] # "present"
    /\ iters = 0
C9_ConflictFailureTolerated ==
    C9_Premise =>
        /\ exceed_size = exceed0
        /\ files = files0
        /\ pc = "loop" \/ (pc = "done" /\ ret.kind = "OkFiles")
C9_Witness ==
    C9_Premise /\ files0[OldPath] = "denied" /\ pc = "loop" /\ exceed0 >= 0

\* C10: remove_lru_file and remove_file leave the key-value mapping as it
\* was; at most the file of the entry they looked up is deleted.
C10_ReclaimKeepsMapping ==
    (pc = "done" /\ op \in {"remove_lru_file", "remove_file"}) =>
        /\ Mapping(inner) = Mapping(inner0)
        /\ \A p \in Paths : files[p] # files0[p] =>
              (files0[p] = "present" /\ files[p] = "absent" /\ p \in StorePaths(inner0))
C10_Witness ==
    /\ pc = "done" /\ op = "remove_file" /\ ret.kind = "OkSome"
    /\ inner # inner0 /\ Len(inner) >= 2

\* the path a reclamation helper looked up (NoPath: no such entry)
LookedUp ==
    IF op = "remove_file" THEN StorePeek(inner0, key)
                          ELSE least_recently_used_value(inner0)
ReclaimDone == pc = "done" /\ op \in {"remove_lru_file", "remove_file"}

\* C11: in remove_file and remove_lru_file absence is no error: with no such
\* entry, or with the entry's file absent, the result is Ok(None) and nothing
\* is deleted; a reclamation that returns a size returns the file's size and
\* leaves the file absent, so that reclaiming the entry again returns Ok(None).
C11_AbsenceIsNoError ==
    ReclaimDone =>
        /\ (LookedUp = NoPath \/ files0[LookedUp] = "absent") =>
              (ret = OkNone /\ files = files0)
        /\ (LookedUp # NoPath /\ files0[LookedUp] = "present") =>
              (ret = OkSome(FileSize(LookedUp)) /\ files[LookedUp] = "absent")
C11_Witness ==
    ReclaimDone /\ LookedUp # NoPath /\ files0[LookedUp] = "absent" /\ ret = OkNone

\* C13: access of a present key returns its value and makes the key the most
\* recently used, the other keys keeping their order; access of an absent
\* key returns nothing and changes nothing.
C13_AccessPromotes ==
    (pc = "done" /\ op = "access") =>
        /\ files = files0
        /\ IF StoreHas(inner0, key)
           THEN /\ ret = OkSome(StorePeek(inner0, key))
                /\ StoreMru(inner) = key
                /\ StoreWithout(inner, key) = StoreWithout(inner0, key)
                /\ Mapping(inner) = Mapping(inner0)
           ELSE ret = OkNone /\ inner = inner0
C13_Witness ==
    pc = "done" /\ op = "access" /\ Len(inner0) >= 3 /\ StoreLru(inner0) = key

\* C20: remove_file makes a present key the most recently used (the others
\* keep their order); remove_lru_file leaves the order as it was, so the
\* entry whose file it deleted is still the least recently used.
C20_ReclaimOrder ==
    ReclaimDone =>
        IF op = "remove_file"
        THEN StoreHas(inner0, key) =>
               (StoreMru(inner) = key /\ StoreWithout(inner, key) = StoreWithout(inner0, key))
        ELSE inner = inner0
C20_Witness ==
    /\ pc = "done" /\ op = "remove_lru_file" /\ ret.kind = "OkSome"
    /\ Len(inner) >= 2 /\ files[inner[1][2]] = "absent"

QueryOps ==
    {"peek", "most_recently_used", "most_recently_used_value", "most_recently_used_pair",
     "least_recently_used", "least_recently_used_value", "least_recently_used_pair"}

\* C12: peek and the most/least_recently_used queries (key, value and pair)
\* leave the store as it was: same mapping, same recency order; and they
\* report the entry they name.
C12_QueriesKeepStore ==
    (pc = "done" /\ op \in QueryOps) =>
        /\ inner = inner0
        /\ files = files0
        /\ op = "peek" => ret = OptResult(StorePeek(inner0, key))
        /\ (op = "least_recently_used_pair" /\ inner0 # <<>>) => ret = OkPair(inner0[1])
        /\ (op = "most_recently_used_pair" /\ inner0 # <<>>) => ret = OkPair(inner0[Len(inner0)])
C12_Witness ==
    pc = "done" /\ op = "peek" /\ Len(inner0) >= 3 /\ StoreLru(inner0) = key

\* C15: an iteration of the eviction loop that finds the LRU entry's file
\* absent still removes that entry from the store.
C15_StaleEntryPopped ==
    [][(pc = "loop" /\ pc' = "loop" /\ iters' # iters /\ reclaim' = "None")
          => ~StoreHas(inner', StoreLru(inner))]_vars

\* C16: when insert_new_file fails, the records of the entries it has
\* already evicted are in what it returns.
C16_RecordsExposedOnFailure ==
    (InsertDone /\ ret.kind # "OkFiles") => ret.files = removed_files

\* the keys and the paths the returned records name
RecordKeys == {ret.files[i].key : i \in DOMAIN ret.files}
RecordPaths == {ret.files[i].file_path : i \in DOMAIN ret.files}
FreshInsertOk == InsertOk /\ ~StoreHas(inner0, key)
\* the entries of the prior store that no record names, in their order
Survivors == SelectSeq(inner0, LAMBDA e : e[1] \notin RecordKeys)
C17_StorePart ==
    /\ inner = Append(Survivors, <<key, path>>)
    /\ exceed0 < 0 => (ret.files = <<>> /\ files = files0)

\* C17 as stated: after a successful insert_new_file under a fresh key the
\* store is the survivors, in their order, plus the new key, and the backing
\* file of every survivor is untouched.
C17_SurvivorFilesUntouched ==
    FreshInsertOk =>
        /\ C17_StorePart
        /\ \A i \in DOMAIN Survivors : files[Survivors[i][2]] = files0[Survivors[i][2]]

\* C17 amended: the store is as stated, and the files deleted are exactly
\* those the returned records name; every other file is untouched.
C17_OnlyRecordFilesDeleted ==
    FreshInsertOk =>
        /\ C17_StorePart
        /\ \A p \in RecordPaths : files0[p] = "present"
        /\ files = [p \in DOMAIN files0 |-> IF p \in RecordPaths THEN "absent" ELSE files0[p]]
C17_Witness ==
    FreshInsertOk /\ Len(ret.files) >= 1 /\ Len(Survivors) >= 1

\* the scenario: sizes 512, 512, 768, 512, 1536 under fresh keys
Scenario == <<512, 512, 768, 512, 1536>>
ScenarioFifthReturned == placed = Scenario /\ key = 5 /\ pc \in {"done", "idle"}

\* C14 as stated: the fifth insertion succeeds after evicting exactly the two
\* oldest entries (512 + 512 bytes), and used becomes 1536.
C14_FifthEvictsTwoOldest ==
    ScenarioFifthReturned =>
        /\ ret = OkFiles(<<FileInfo(1, 1, 512), FileInfo(2, 2, 512)>>)
        /\ pc = "idle" => used = 1536

\* C14 amended: the fourth insertion has already evicted the oldest entry;
\* the fifth succeeds after evicting the three entries left (512 + 768 + 512
\* bytes), the store holds the fifth entry alone, and used becomes 1536.
C14_FifthEvictsAllThree ==
    ScenarioFifthReturned =>
        /\ ret = OkFiles(<<FileInfo(2, 2, 512), FileInfo(3, 3, 768), FileInfo(4, 4, 512)>>)
        /\ inner = <<<<5, 5>>>>
        /\ pc = "idle" => used = 1536
C14_Witness ==
    ScenarioFifthReturned /\ pc = "idle" /\ used = 1536

RECURSIVE SumEntries(_)
SumEntries(s) ==
    IF s = <<>> THEN 0 ELSE FileSize(s[1][2]) + SumEntries(Tail(s))

\* C18: under the example's protocol, whenever a call has succeeded and the
\* caller has updated used, every entry of the store has its file, used is
\* the sum of the sizes of those files, and used is at most the capacity.
C18_UsedIsHeldBytes ==
    pc = "idle" =>
        /\ \A i \in DOMAIN inner : files[inner[i][2]] = "present"
        /\ used = SumEntries(inner)
        /\ used <= total_capacity
C18_Witness ==
    /\ pc = "idle" /\ key = Len(placed) /\ Len(placed) >= 3
    /\ Len(ret.files) >= 2 /\ Len(inner) >= 2

PathsDistinct(s) == \A i, j \in DOMAIN s : s[i][2] = s[j][2] => i = j
FilesExist(s, fs) == \A i \in DOMAIN s : fs[s[i][2]] # "absent"

\* C19: with distinct stored paths, every entry's file existing, and the
\* store changed only by insert_new_file with an existing new path no entry
\* points to, whenever the call has returned every entry points to an
\* existing file, the paths are distinct, and no deleted file is pointed to.
C19_NoDanglingEntry ==
    pc \in {"idle", "done"} =>
        /\ FilesExist(inner, files)
        /\ PathsDistinct(inner)
        /\ pc = "done" =>
              \A p \in Paths : (files0[p] # "absent" /\ files[p] = "absent")
                                  => p \notin StorePaths(inner)
C19_Witness ==
    /\ InsertOk /\ OldPath # NoPath /\ files[OldPath] = "absent"
    /\ Len(ret.files) >= 1 /\ StorePeek(inner, key) = path

=============================================================================
